---- MODULE Spec2Model ----
(***************************************************************************)
(* A model of the Clue scanner (core/src/scanner.rs), the diagnostic       *)
(* substrate it reports through (core/src/error.rs) and the call and       *)
(* expression builder of the parser (src/parser.rs).                       *)
(*                                                                         *)
(* A text is a sequence of characters, each a one-character string; the    *)
(* NUL character and one two-byte character have names of their own.  A    *)
(* TokenPosition is modelled by its index field: line and column are       *)
(* copied from tags the preprocessor attaches to every byte of the Code    *)
(* and decide no branch of the scanner.                                    *)
(***************************************************************************)
EXTENDS Integers, Sequences, FiniteSets, TLC

VARIABLES
    code,             \* scan_code's code argument: the text to scan
    reader_ok,        \* whether reader.get_code() returns Ok(the text)
    overflow_checks,  \* build profile: TRUE panics on integer overflow, FALSE wraps
    i,                \* scan_code's i: ScannerInfo
    pc,               \* "scan" (in the main loop), "done" (returned), "panicked",
                      \* "unused" (scan_code is not called)
    result,           \* scan_code's return: "none" until it returns, then "Ok" or "Err"
    scanned,          \* the tokens of an earlier scan whose lexemes are being scanned
                      \* again, "none" when there is no earlier scan
    p,                \* the parser's ParserInfo
    stack,            \* the active buildCall / buildExpression invocations, innermost last
    ret,              \* the value the invocation that just returned hands to its caller
    ppc,              \* "idle", "run", "returned", "ok", "err", "panicked",
                      \* "unused" (ParseTokens is not called)
    perror            \* the message of the Err the parser returned

svars == <<code, reader_ok, overflow_checks, i, pc, result, scanned>>
pvars == <<p, stack, ret, ppc, perror>>
vars == <<code, reader_ok, overflow_checks, i, pc, result, scanned, p, stack, ret, ppc, perror>>

(***************************************************************************)
(* Characters.                                                             *)
(***************************************************************************)
NUL == "NUL"
EACUTE == "U+00E9"
BACKTICK == "U+0060"

Digits == {"0", "1", "2", "3", "4", "5", "6", "7", "8", "9"}
HexDigits == Digits \cup {"a", "b", "c", "d", "e", "f", "A", "B", "C", "D", "E", "F"}
BinDigits == {"0", "1"}
Lower == {"a", "b", "c", "d", "e", "f", "g", "h", "i", "j", "k", "l", "m",
          "n", "o", "p", "q", "r", "s", "t", "u", "v", "w", "x", "y", "z"}
Upper == {"A", "B", "C", "D", "E", "F", "G", "H", "I", "J", "K", "L", "M",
          "N", "O", "P", "Q", "R", "S", "T", "U", "V", "W", "X", "Y", "Z"}
Alphabetic == Lower \cup Upper
Alphanumeric == Alphabetic \cup Digits
Whitespace == {" ", "\t", "\n", "\r"}

Min(a, b) == IF a < b THEN a ELSE b
Max(a, b) == IF a < b THEN b ELSE a

(***************************************************************************)
(* The Code and its character iterator (crate::code, outside the files     *)
(* modelled here).  Code::len is the number of bytes of the text;          *)
(* next_unwrapped decodes the next character, NUL once the text is used    *)
(* up; bytes_read returns the bytes decoded since it was last called.      *)
(***************************************************************************)
ByteLen(c) == IF c = EACUTE THEN 2 ELSE 1

\* the bytes of the first k characters: one each, and one more for each two-byte one
BytesBefore(text, k) == k + Cardinality({j \in 1..k : ByteLen(text[j]) = 2})

CodeLen(text) == BytesBefore(text, Len(text))

\* the k-th call (from 0) of next_unwrapped: the character, and the bytes it pops
next_unwrapped(text, k) == IF k < Len(text) THEN text[k + 1] ELSE NUL
BytesPopped(text, k) == IF k < Len(text) THEN ByteLen(text[k + 1]) ELSE 0

(***************************************************************************)
(* The symbol and keyword tables.                                          *)
(***************************************************************************)
Just(kind) == [type |-> "Just", kind |-> kind]
Symbols(symbols, default) == [type |-> "Symbols", symbols |-> symbols, default |-> default]
Function(f) == [type |-> "Function", f |-> f]

SYMBOLS ==
    ("(" :> Just("ROUND_BRACKET_OPEN")) @@
    (")" :> Just("ROUND_BRACKET_CLOSED")) @@
    ("[" :> Just("SQUARE_BRACKET_OPEN")) @@
    ("]" :> Just("SQUARE_BRACKET_CLOSED")) @@
    ("{" :> Just("CURLY_BRACKET_OPEN")) @@
    ("}" :> Just("CURLY_BRACKET_CLOSED")) @@
    ("," :> Just("COMMA")) @@
    ("." :> Symbols(
        "." :> Symbols(("." :> Just("THREEDOTS")) @@ ("=" :> Just("CONCATENATE")), "TWODOTS"),
        "DOT")) @@
    (";" :> Just("SEMICOLON")) @@
    ("+" :> Symbols("=" :> Just("INCREASE"), "PLUS")) @@
    ("-" :> Symbols("=" :> Just("DECREASE"), "MINUS")) @@
    ("*" :> Symbols("=" :> Just("MULTIPLY"), "STAR")) @@
    ("^" :> Symbols(("=" :> Just("EXPONENTIATE")) @@ ("^" :> Just("BIT_XOR")), "CARET")) @@
    ("#" :> Just("HASHTAG")) @@
    ("/" :> Symbols(("=" :> Just("DIVIDE")) @@ ("_" :> Just("FLOOR_DIVISION")), "SLASH")) @@
    ("%" :> Symbols("=" :> Just("MODULATE"), "PERCENTUAL")) @@
    ("!" :> Symbols("=" :> Just("NOT_EQUAL"), "NOT")) @@
    ("~" :> Just("BIT_NOT")) @@
    ("=" :> Symbols(("=" :> Just("EQUAL")) @@ (">" :> Just("ARROW")), "DEFINE")) @@
    ("<" :> Symbols(("=" :> Just("SMALLER_EQUAL")) @@ ("<" :> Just("LEFT_SHIFT")), "SMALLER")) @@
    (">" :> Symbols(("=" :> Just("BIGGER_EQUAL")) @@ (">" :> Just("RIGHT_SHIFT")), "BIGGER")) @@
    ("?" :> Symbols(
        ("." :> Just("SAFE_DOT")) @@
        (":" :> Function("safe_double_colon")) @@
        ("[" :> Just("SAFE_SQUARE_BRACKET")) @@
        ("?" :> Symbols("=" :> Just("DEFINE_COALESCE"), "COALESCE")) @@
        ("(" :> Just("SAFE_CALL")),
        "QUESTION_MARK")) @@
    ("&" :> Symbols("&" :> Symbols("=" :> Just("DEFINE_AND"), "AND"), "BIT_AND")) @@
    (":" :> Symbols(":" :> Just("DOUBLE_COLON"), "COLON")) @@
    ("|" :> Symbols("|" :> Symbols("=" :> Just("DEFINE_OR"), "OR"), "BIT_OR")) @@
    ("\"" :> Function("read_string_double")) @@
    ("'" :> Function("read_string_single")) @@
    (BACKTICK :> Function("read_raw_string"))

KEYWORDS ==
    <<"a", "n", "d">> :> [type |-> "Reserved", kind |-> "IDENTIFIER"] @@
    <<"n", "o", "t">> :> [type |-> "Reserved", kind |-> "IDENTIFIER"] @@
    <<"o", "r">> :> [type |-> "Reserved", kind |-> "IDENTIFIER"] @@
    <<"d", "o">> :> [type |-> "Reserved", kind |-> "IDENTIFIER"] @@
    <<"e", "n", "d">> :> [type |-> "Reserved", kind |-> "IDENTIFIER"] @@
    <<"f", "u", "n", "c", "t", "i", "o", "n">> :> [type |-> "Reserved", kind |-> "IDENTIFIER"] @@
    <<"r", "e", "p", "e", "a", "t">> :> [type |-> "Reserved", kind |-> "IDENTIFIER"] @@
    <<"t", "h", "e", "n">> :> [type |-> "Reserved", kind |-> "IDENTIFIER"] @@
    <<"i", "f">> :> [type |-> "Lua", kind |-> "IF"] @@
    <<"e", "l", "s", "e", "i", "f">> :> [type |-> "Lua", kind |-> "ELSEIF"] @@
    <<"e", "l", "s", "e">> :> [type |-> "Lua", kind |-> "ELSE"] @@
    <<"f", "o", "r">> :> [type |-> "Lua", kind |-> "FOR"] @@
    <<"i", "n">> :> [type |-> "Lua", kind |-> "IN"] @@
    <<"w", "h", "i", "l", "e">> :> [type |-> "Lua", kind |-> "WHILE"] @@
    <<"u", "n", "t", "i", "l">> :> [type |-> "Lua", kind |-> "UNTIL"] @@
    <<"l", "o", "c", "a", "l">> :> [type |-> "Lua", kind |-> "LOCAL"] @@
    <<"r", "e", "t", "u", "r", "n">> :> [type |-> "Lua", kind |-> "RETURN"] @@
    <<"t", "r", "u", "e">> :> [type |-> "Lua", kind |-> "TRUE"] @@
    <<"f", "a", "l", "s", "e">> :> [type |-> "Lua", kind |-> "FALSE"] @@
    <<"n", "i", "l">> :> [type |-> "Lua", kind |-> "NIL"] @@
    <<"b", "r", "e", "a", "k">> :> [type |-> "Lua", kind |-> "BREAK"] @@
    <<"o", "f">> :> [type |-> "Just", kind |-> "OF"] @@
    <<"w", "i", "t", "h">> :> [type |-> "Just", kind |-> "WITH"] @@
    <<"m", "e", "t", "a">> :> [type |-> "Just", kind |-> "META"] @@
    <<"g", "l", "o", "b", "a", "l">> :> [type |-> "Just", kind |-> "GLOBAL"] @@
    <<"f", "n">> :> [type |-> "Just", kind |-> "FN"] @@
    <<"m", "e", "t", "h", "o", "d">> :> [type |-> "Just", kind |-> "METHOD"] @@
    <<"l", "o", "o", "p">> :> [type |-> "Just", kind |-> "LOOP"] @@
    <<"s", "t", "a", "t", "i", "c">> :> [type |-> "Just", kind |-> "STATIC"] @@
    <<"e", "n", "u", "m">> :> [type |-> "Just", kind |-> "ENUM"] @@
    <<"c", "o", "n", "t", "i", "n", "u", "e">> :> [type |-> "Just", kind |-> "CONTINUE"] @@
    <<"t", "r", "y">> :> [type |-> "Just", kind |-> "TRY"] @@
    <<"c", "a", "t", "c", "h">> :> [type |-> "Just", kind |-> "CATCH"] @@
    <<"m", "a", "t", "c", "h">> :> [type |-> "Just", kind |-> "MATCH"] @@
    <<"d", "e", "f", "a", "u", "l", "t">> :> [type |-> "Just", kind |-> "DEFAULT"] @@
    <<"c", "o", "n", "s", "t", "r", "u", "c", "t", "o", "r">> :> [type |-> "Error", kind |-> "IDENTIFIER"] @@
    <<"s", "t", "r", "u", "c", "t">> :> [type |-> "Error", kind |-> "IDENTIFIER"] @@
    <<"e", "x", "t", "e", "r", "n">> :> [type |-> "Error", kind |-> "IDENTIFIER"]

(***************************************************************************)
(* ScannerInfo.  A ScannerInfo value is a record of the struct's fields;   *)
(* bytes_read is the iterator's count of bytes popped since the last call  *)
(* of bytes_read(), sent is the sequence of diagnostics written so far and *)
(* panicked is set once an operation has panicked (an index out of the     *)
(* read vector, a slice out of the text, an overflow under               *)
(* overflow_checks): every later operation then leaves the value alone.    *)
(***************************************************************************)
ScannerInfo_new(text) ==
    [start |-> 0,
     current |-> 0,
     size |-> CodeLen(text) + 2,
     read |-> <<next_unwrapped(text, 0), next_unwrapped(text, 1)>>,
     bytes_read |-> BytesPopped(text, 0) + BytesPopped(text, 1),
     tokens |-> <<>>,
     last |-> "EOF",
     errors |-> 0,
     sent |-> <<>>,
     panicked |-> FALSE]

\* Then(v, F) is F(v), with v evaluated once: let x = v; F(x)
Then(v, F(_)) == CHOOSE r \in {F(x) : x \in {v}} : TRUE

Panic(s) == [s EXCEPT !.panicked = TRUE]

\* impl_errormessaging::is_first(error): an error makes the u8 tally go up by
\* one; the boolean it returns is is_first_returned of the value afterwards
is_first(s, error) ==
    IF ~error THEN s
    ELSE IF s.errors = 255
    THEN IF overflow_checks THEN Panic(s) ELSE [s EXCEPT !.errors = 0]
    ELSE [s EXCEPT !.errors = @ + 1]

is_first_returned(s) == s.errors = 1

\* &code[..a], &code[b..] and &code[a..b] are slices of the text at byte
\* offsets: each offset must be at most the text's length in bytes and fall
\* between two characters, and a must be at most b
CharBoundary(text, offset) ==
    \E k \in Max(0, offset - (CodeLen(text) - Len(text)))..Min(offset, Len(text)) :
        BytesBefore(text, k) = offset

SliceOk(text, a, b) ==
    /\ a <= b
    /\ CharBoundary(text, a)
    /\ CharBoundary(text, b)

\* ErrorMessaging::send: a diagnostic written is kept with its kind, its span
\* and whether the separator line comes before it (is_first returned false)
send(s, kind, message, a, b) ==
    Then(is_first(s, kind = "Error"), LAMBDA counted :
        IF counted.panicked THEN counted
        ELSE IF reader_ok /\ ~SliceOk(code, a, b) THEN Panic(counted)
        ELSE [counted EXCEPT
                !.sent = Append(@, [kind |-> kind, message |-> message,
                                    start |-> a, end |-> b,
                                    separator |-> ~is_first_returned(counted)])])

error(s, message) ==
    IF s.panicked THEN s ELSE send(s, "Error", message, s.start, s.current)

ended(s) == s.current >= s.size

InRead(s, pos) == pos >= 0 /\ pos < Len(s.read)
at(s, pos) == s.read[pos + 1]

advance(s) ==
    IF s.panicked THEN s
    ELSE IF ~(s.current < Len(s.read) + 1) THEN Panic(s)
    ELSE LET read == s.bytes_read + BytesPopped(code, Len(s.read))
         IN [s EXCEPT
               !.read = Append(@, next_unwrapped(code, Len(s.read))),
               !.size = IF read > 0 THEN @ - (read - 1) ELSE @,
               !.bytes_read = 0,
               !.current = @ + 1]

PeekOk(s, pos) == InRead(s, s.current + pos)
peek(s, pos) == at(s, s.current + pos)
look_back(s) == at(s, s.current - 1)

\* compare: the ScannerInfo afterwards, and the boolean returned
compare(s, expected) ==
    IF ended(s) THEN [s |-> s, ok |-> FALSE]
    ELSE IF ~PeekOk(s, 0) THEN [s |-> Panic(s), ok |-> FALSE]
    ELSE IF peek(s, 0) # expected THEN [s |-> s, ok |-> FALSE]
    ELSE [s |-> advance(s), ok |-> TRUE]

\* substr visits start, start + 1, ... and stops at end or at the first index >= size
SubstrEnd(s, start, end) == Max(start, Min(end, s.size))
SubstrOk(s, start, end) ==
    \A pos \in start..(SubstrEnd(s, start, end) - 1) : InRead(s, pos)
substr(s, start, end) ==
    [k \in 1..(SubstrEnd(s, start, end) - start) |-> at(s, start + k - 1)]

Token(kind, lexeme, start, end) ==
    [kind |-> kind, lexeme |-> lexeme, position |-> [start |-> start, end |-> end]]

add_literal_token(s, kind, literal) ==
    IF s.panicked THEN s
    ELSE [s EXCEPT !.tokens = Append(@, Token(kind, literal, s.start, s.current))]

\* add_token without the lexeme of the text between start and current
add_token_without_lexeme(s, kind) ==
    IF s.panicked THEN s
    ELSE [s EXCEPT !.last = kind,
                   !.tokens = Append(@, Token(kind, <<>>, s.start, s.current))]

add_token(s, kind) ==
    IF s.panicked THEN s
    ELSE IF ~SubstrOk(s, s.start, s.current) THEN Panic(s)
    ELSE [s EXCEPT !.last = kind,
                   !.tokens = Append(@, Token(kind, substr(s, s.start, s.current),
                                              s.start, s.current))]

\* while check(peek(0)) { advance() }
RECURSIVE AdvanceWhile(_, _)
AdvanceWhile(s, check) ==
    IF s.panicked THEN s
    ELSE IF ~PeekOk(s, 0) THEN Panic(s)
    ELSE IF peek(s, 0) \in check
         THEN Then(advance(s), LAMBDA s1 : AdvanceWhile(s1, check))
    ELSE s

\* read_number, lines 285-293: the digits and the fraction
ReadDigits(s, check) ==
    Then(AdvanceWhile(s, check), LAMBDA s1 :
        IF s1.panicked THEN s1
        ELSE IF ~PeekOk(s1, 0) THEN Panic(s1)
        ELSE IF peek(s1, 0) # "." THEN s1
        ELSE IF ~PeekOk(s1, 1) THEN Panic(s1)
        ELSE IF peek(s1, 1) \in check
             THEN Then(advance(s1), LAMBDA s2 : AdvanceWhile(s2, check))
        ELSE s1)

\* read_number, lines 297-304: the character after the exponent's e
ReadExponentSign(s) ==
    IF ~PeekOk(s, 1) THEN Panic(s)
    ELSE IF peek(s, 1) \in Digits THEN s
    ELSE IF peek(s, 1) # "-" THEN error(s, "Malformed number")
    ELSE IF ~PeekOk(s, 2) THEN Panic(s)
    ELSE IF peek(s, 2) \in Digits THEN advance(s)
    ELSE error(s, "Malformed number")

\* read_number, lines 295-309: the exponent of a decimal number
ReadExponent(s) ==
    IF s.panicked THEN s
    ELSE IF ~PeekOk(s, 0) THEN Panic(s)
    ELSE IF peek(s, 0) \notin {"e", "E"} THEN s
    ELSE Then(ReadExponentSign(s), LAMBDA s1 :
         Then(advance(s1), LAMBDA s2 : AdvanceWhile(s2, Digits)))

\* read_number, lines 313-322: the LL / ULL suffix
ReadSuffix(s) ==
    IF s.panicked THEN s
    ELSE IF ~SubstrOk(s, s.current, s.current + 2) THEN Panic(s)
    ELSE Then(substr(s, s.current, s.current + 2), LAMBDA llcheck :
         IF llcheck = <<"L", "L">> THEN [s EXCEPT !.current = @ + 2]
         ELSE IF llcheck = <<"U", "L">>
              THEN IF ~PeekOk(s, 2) THEN Panic(s)
                   ELSE IF peek(s, 2) = "L" THEN [s EXCEPT !.current = @ + 3]
                   ELSE error(s, "Malformed number")
         ELSE s)

read_number(s, check, simple) ==
    Then(ReadDigits(s, check), LAMBDA digits :
    Then(IF digits.panicked THEN digits
         ELSE IF simple THEN ReadExponent(digits)
         ELSE IF digits.current = s.current THEN error(digits, "Malformed number")
         ELSE digits, LAMBDA body :
    Then(ReadSuffix(body), LAMBDA suffixed : add_token(suffixed, "NUMBER"))))

\* read_string_contents, lines 327-332: the loop
RECURSIVE StringLoop(_, _)
StringLoop(s, strend) ==
    IF s.panicked \/ ended(s) THEN s
    ELSE IF ~PeekOk(s, 0) THEN Panic(s)
    ELSE IF peek(s, 0) = strend THEN s
    ELSE Then(advance(s), LAMBDA s1 :
         IF s1.panicked THEN s1
         ELSE IF ~InRead(s1, s1.current - 1) THEN Panic(s1)
         ELSE IF look_back(s1) = "\\"
              THEN Then(advance(s1), LAMBDA s2 : StringLoop(s2, strend))
         ELSE StringLoop(s1, strend))

\* read_string_contents: the ScannerInfo afterwards, and the boolean returned
read_string_contents(s, strend) ==
    Then(StringLoop(s, strend), LAMBDA s1 :
        IF s1.panicked THEN [s |-> s1, ok |-> FALSE]
        ELSE IF ended(s1) THEN [s |-> error(s1, "Unterminated string"), ok |-> FALSE]
        ELSE [s |-> s1, ok |-> TRUE])

\* literal.retain(|c| !matches!(c, '\r' | '\n' | '\t'))
retain(literal) == SelectSeq(literal, LAMBDA c : c \notin {"\r", "\n", "\t"})

\* the STRING token keeps the content only, without its two delimiters
read_string_without_delimiters(s, strend) ==
    Then(read_string_contents(s, strend), LAMBDA r :
        IF ~r.ok THEN r.s
        ELSE Then(advance(r.s), LAMBDA s1 :
             IF s1.panicked THEN s1
             ELSE IF ~SubstrOk(s1, s1.start + 1, s1.current - 1) THEN Panic(s1)
             ELSE add_literal_token(s1, "STRING",
                                    retain(substr(s1, s1.start + 1, s1.current - 1)))))

read_string(s, strend) ==
    Then(read_string_contents(s, strend), LAMBDA r :
        IF ~r.ok THEN r.s
        ELSE Then(advance(r.s), LAMBDA s1 :
             IF s1.panicked THEN s1
             ELSE IF ~SubstrOk(s1, s1.start, s1.current) THEN Panic(s1)
             ELSE add_literal_token(s1, "STRING",
                                    retain(substr(s1, s1.start, s1.current)))))

\* str::contains, str::ends_with and str::replace on sequences of characters
MatchAt(text, pat, k) ==
    /\ k + Len(pat) - 1 <= Len(text)
    /\ \A j \in 1..Len(pat) : text[k + j - 1] = pat[j]
contains(text, pat) == \E k \in 1..(Len(text) + 1) : MatchAt(text, pat, k)
ends_with(text, c) == Len(text) > 0 /\ text[Len(text)] = c

RECURSIVE ReplaceFrom(_, _, _, _)
ReplaceFrom(text, pat, to, k) ==
    IF k > Len(text) THEN <<>>
    ELSE IF MatchAt(text, pat, k) THEN to \o ReplaceFrom(text, pat, to, k + Len(pat))
    ELSE <<text[k]>> \o ReplaceFrom(text, pat, to, k + 1)
replace(text, pat, to) == ReplaceFrom(text, pat, to, 1)

Equals(n) == [k \in 1..n |-> "="]

\* read_raw_string, lines 354-359: the number of "=" of the long bracket
RECURSIVE BracketLevel(_, _, _)
BracketLevel(literal, n, must) ==
    IF must \/ contains(literal, <<"]">> \o Equals(n) \o <<"]">>)
    THEN BracketLevel(literal, n + 1, FALSE)
    ELSE n

\* the long bracket of level 0 whatever the literal holds
LongBracket_level_zero(literal) ==
    <<"[", "[">> \o replace(literal, <<"\\", BACKTICK>>, <<BACKTICK>>) \o <<"]", "]">>

\* read_raw_string, lines 360-371: the long-bracket string of a literal
LongBracket(literal) ==
    Then(Equals(BracketLevel(literal, 0, ends_with(literal, "]"))), LAMBDA brackets :
        <<"[">> \o brackets \o <<"[">> \o replace(literal, <<"\\", BACKTICK>>, <<BACKTICK>>)
        \o <<"]">> \o brackets \o <<"]">>)

read_raw_string(s) ==
    Then(read_string_contents(s, BACKTICK), LAMBDA r :
        IF ~r.ok THEN r.s
        ELSE Then(advance(r.s), LAMBDA s1 :
             IF s1.panicked THEN s1
             ELSE IF ~SubstrOk(s1, s1.start + 1, s1.current - 1) THEN Panic(s1)
             ELSE Then(substr(s1, s1.start + 1, s1.current - 1), LAMBDA literal :
                  add_literal_token(s1, "STRING", LongBracket(literal)))))

\* read_identifier leaves the identifier in substr(start, current)
read_identifier(s) == AdvanceWhile(s, Alphanumeric \cup {"_"})

\* the closure of the '?' ':' entry of SYMBOLS
safe_double_colon(s) ==
    Then(compare(s, ":"), LAMBDA r :
        IF r.s.panicked THEN r.s
        ELSE IF r.ok THEN add_token(r.s, "SAFE_DOUBLE_COLON")
        ELSE [r.s EXCEPT !.current = @ - 1])

CallFunction(f, s) ==
    CASE f = "read_string_double" -> read_string(s, "\"")
      [] f = "read_string_single" -> read_string(s, "'")
      [] f = "read_raw_string" -> read_raw_string(s)
      [] f = "safe_double_colon" -> safe_double_colon(s)

\* scan_char: the ScannerInfo afterwards, and the boolean returned
RECURSIVE scan_char(_, _, _)
scan_char(s, symbols, c) ==
    IF s.panicked \/ c \notin DOMAIN symbols THEN [s |-> s, ok |-> FALSE]
    ELSE Then(symbols[c], LAMBDA token :
         CASE token.type = "Just" -> [s |-> add_token(s, token.kind), ok |-> TRUE]
           [] token.type = "Function" -> [s |-> CallFunction(token.f, s), ok |-> TRUE]
           [] token.type = "Symbols" ->
                Then(advance(s), LAMBDA s1 :
                    IF s1.panicked THEN [s |-> s1, ok |-> TRUE]
                    ELSE Then(scan_char(s1, token.symbols, look_back(s1)), LAMBDA r :
                         IF r.s.panicked \/ r.ok THEN [s |-> r.s, ok |-> TRUE]
                         ELSE [s |-> add_token([r.s EXCEPT !.current = @ - 1],
                                               token.default),
                               ok |-> TRUE])))

\* scan_code, lines 706-725: the kind of the identifier just read, with the
\* ScannerInfo after the diagnostics the lookup raises
MemberAccess == {"DOT", "SAFE_DOT", "DOUBLE_COLON", "SAFE_DOUBLE_COLON"}

\* the member-access arm tried before the arm of the Lua keywords
IdentifierKind_member_first(s, ident) ==
    IF ident \notin DOMAIN KEYWORDS THEN [s |-> s, kind |-> "IDENTIFIER"]
    ELSE IF s.last \in MemberAccess THEN [s |-> s, kind |-> "IDENTIFIER"]
    ELSE IF KEYWORDS[ident].type \in {"Lua", "Just"}
         THEN [s |-> s, kind |-> KEYWORDS[ident].kind]
    ELSE [s |-> error(s, "is a reserved keyword in Lua"), kind |-> "IDENTIFIER"]

IdentifierKind(s, ident) ==
    IF ident \notin DOMAIN KEYWORDS THEN [s |-> s, kind |-> "IDENTIFIER"]
    ELSE LET keyword == KEYWORDS[ident]
         IN CASE keyword.type = "Lua" -> [s |-> s, kind |-> keyword.kind]
              [] keyword.type = "Reserved" ->
                   [s |-> error(s, "is a reserved keyword in Lua"), kind |-> "IDENTIFIER"]
              [] keyword.type \in {"Just", "Error"} /\ s.last \in MemberAccess ->
                   [s |-> s, kind |-> "IDENTIFIER"]
              [] keyword.type = "Just" /\ s.last \notin MemberAccess ->
                   [s |-> s, kind |-> keyword.kind]
              [] keyword.type = "Error" /\ s.last \notin MemberAccess ->
                   [s |-> error(s, "is reserved for Clue 4.0"), kind |-> "IDENTIFIER"]

scan_identifier(s) ==
    Then(read_identifier(s), LAMBDA s1 :
        IF s1.panicked THEN s1
        ELSE IF ~SubstrOk(s1, s1.start, s1.current) THEN Panic(s1)
        ELSE Then(IdentifierKind(s1, substr(s1, s1.start, s1.current)), LAMBDA r :
             add_token(r.s, r.kind)))

\* scan_code, lines 683-703: a number, c being its first digit
scan_number(s, c) ==
    IF c # "0" THEN read_number(s, Digits, TRUE)
    ELSE IF ~PeekOk(s, 0) THEN Panic(s)
    ELSE IF peek(s, 0) \in {"x", "X"}
         THEN read_number([s EXCEPT !.current = @ + 1], HexDigits, FALSE)
    ELSE IF peek(s, 0) \in {"b", "B"}
         THEN read_number([s EXCEPT !.current = @ + 1], BinDigits, FALSE)
    ELSE read_number(s, Digits, TRUE)

\* finish(errors, tokens) of the crate root: Ok(tokens) when errors is 0
finish(errors) == IF errors = 0 THEN "Ok" ELSE "Err"

EndLexeme == <<"<", "e", "n", "d", ">">>

(***************************************************************************)
(* scan_code: one action for each way one turn of the main loop can go,    *)
(* and one for leaving the loop.                                           *)
(***************************************************************************)
\* the loop's condition: !i.ended() && i.peek(0) != '\0'
LoopPanics(s) == ~ended(s) /\ ~PeekOk(s, 0)
LoopRuns(s) == ~ended(s) /\ PeekOk(s, 0) /\ peek(s, 0) # NUL
LoopExits(s) == ended(s) \/ (PeekOk(s, 0) /\ peek(s, 0) = NUL)

\* lines 676-678: i.start = i.current; i.update_column(); let c = i.advance()
Begin(s) == advance([s EXCEPT !.start = s.current])

Continue(s) ==
    /\ i' = s
    /\ pc' = IF s.panicked THEN "panicked" ELSE "scan"
    /\ UNCHANGED <<code, reader_ok, overflow_checks, result, scanned, pvars>>

\* one turn of the loop: what scan_char answers for the character, and the
\* ScannerInfo after the branch taken
Turn(s) ==
    Then(Begin(s), LAMBDA s0 :
    Then(scan_char(s0, SYMBOLS, look_back(s0)), LAMBDA r :
        [symbol |-> r.ok,
         c |-> look_back(s0),
         s |-> IF r.ok THEN r.s
               ELSE IF look_back(s0) \in Whitespace THEN s0
               ELSE IF look_back(s0) \in Digits THEN scan_number(s0, look_back(s0))
               ELSE IF look_back(s0) \in Alphabetic \cup {"_"} THEN scan_identifier(s0)
               ELSE error(s0, "Unexpected character")]))

ScanSymbol ==
    /\ pc = "scan" /\ LoopRuns(i)
    /\ \E t \in {Turn(i)} : t.symbol /\ Continue(t.s)

SkipWhitespace ==
    /\ pc = "scan" /\ LoopRuns(i)
    /\ \E t \in {Turn(i)} : ~t.symbol /\ t.c \in Whitespace /\ Continue(t.s)

ScanNumber ==
    /\ pc = "scan" /\ LoopRuns(i)
    /\ \E t \in {Turn(i)} :
          ~t.symbol /\ t.c \notin Whitespace /\ t.c \in Digits /\ Continue(t.s)

ScanIdentifier ==
    /\ pc = "scan" /\ LoopRuns(i)
    /\ \E t \in {Turn(i)} :
          /\ ~t.symbol /\ t.c \notin Whitespace \cup Digits
          /\ t.c \in Alphabetic \cup {"_"}
          /\ Continue(t.s)

UnexpectedCharacter ==
    /\ pc = "scan" /\ LoopRuns(i)
    /\ \E t \in {Turn(i)} :
          /\ ~t.symbol
          /\ t.c \notin Whitespace \cup Digits \cup Alphabetic \cup {"_"}
          /\ Continue(t.s)

\* the loop's condition reads past the end of read
LoopHeadPanic ==
    /\ pc = "scan" /\ LoopPanics(i)
    /\ Continue(Panic(i))

\* lines 732-733: the EOF token and the result
Finish ==
    /\ pc = "scan" /\ LoopExits(i)
    /\ i' = add_literal_token(i, "EOF", EndLexeme)
    /\ result' = finish(i.errors)
    /\ pc' = "done"
    /\ UNCHANGED <<code, reader_ok, overflow_checks, scanned, pvars>>

(***************************************************************************)
(* The texts scan_code is run on.                                          *)
(***************************************************************************)
MaxLen == 3
MaxContent == 3
MaxDigits == 2
MaxErrors == 257

\* the sequences of length at most n over the characters of S
RECURSIVE SeqsUpTo(_, _)
SeqsUpTo(S, n) ==
    IF n = 0 THEN {<<>>}
    ELSE LET shorter == SeqsUpTo(S, n - 1)
         IN shorter \cup {Append(t, c) : t \in shorter, c \in S}

Concat(A, B) == {a \o b : a \in A, b \in B}

\* every string of the symbol table with its kind, read off SYMBOLS row by row
OperatorTable ==
    (<<"(">> :> "ROUND_BRACKET_OPEN") @@ (<<")">> :> "ROUND_BRACKET_CLOSED") @@
    (<<"[">> :> "SQUARE_BRACKET_OPEN") @@ (<<"]">> :> "SQUARE_BRACKET_CLOSED") @@
    (<<"{">> :> "CURLY_BRACKET_OPEN") @@ (<<"}">> :> "CURLY_BRACKET_CLOSED") @@
    (<<",">> :> "COMMA") @@
    (<<".">> :> "DOT") @@ (<<".", ".">> :> "TWODOTS") @@
    (<<".", ".", ".">> :> "THREEDOTS") @@ (<<".", ".", "=">> :> "CONCATENATE") @@
    (<<";">> :> "SEMICOLON") @@
    (<<"+">> :> "PLUS") @@ (<<"+", "=">> :> "INCREASE") @@
    (<<"-">> :> "MINUS") @@ (<<"-", "=">> :> "DECREASE") @@
    (<<"*">> :> "STAR") @@ (<<"*", "=">> :> "MULTIPLY") @@
    (<<"^">> :> "CARET") @@ (<<"^", "=">> :> "EXPONENTIATE") @@ (<<"^", "^">> :> "BIT_XOR") @@
    (<<"#">> :> "HASHTAG") @@
    (<<"/">> :> "SLASH") @@ (<<"/", "=">> :> "DIVIDE") @@ (<<"/", "_">> :> "FLOOR_DIVISION") @@
    (<<"%">> :> "PERCENTUAL") @@ (<<"%", "=">> :> "MODULATE") @@
    (<<"!">> :> "NOT") @@ (<<"!", "=">> :> "NOT_EQUAL") @@
    (<<"~">> :> "BIT_NOT") @@
    (<<"=">> :> "DEFINE") @@ (<<"=", "=">> :> "EQUAL") @@ (<<"=", ">">> :> "ARROW") @@
    (<<"<">> :> "SMALLER") @@ (<<"<", "=">> :> "SMALLER_EQUAL") @@
    (<<"<", "<">> :> "LEFT_SHIFT") @@
    (<<">">> :> "BIGGER") @@ (<<">", "=">> :> "BIGGER_EQUAL") @@
    (<<">", ">">> :> "RIGHT_SHIFT") @@
    (<<"?">> :> "QUESTION_MARK") @@ (<<"?", ".">> :> "SAFE_DOT") @@
    (<<"?", ":", ":">> :> "SAFE_DOUBLE_COLON") @@ (<<"?", "[">> :> "SAFE_SQUARE_BRACKET") @@
    (<<"?", "?">> :> "COALESCE") @@ (<<"?", "?", "=">> :> "DEFINE_COALESCE") @@
    (<<"?", "(">> :> "SAFE_CALL") @@
    (<<"&">> :> "BIT_AND") @@ (<<"&", "&">> :> "AND") @@ (<<"&", "&", "=">> :> "DEFINE_AND") @@
    (<<":">> :> "COLON") @@ (<<":", ":">> :> "DOUBLE_COLON") @@
    (<<"|">> :> "BIT_OR") @@ (<<"|", "|">> :> "OR") @@ (<<"|", "|", "=">> :> "DEFINE_OR")

OperatorInputs ==
    Concat(DOMAIN OperatorTable, {<<>>, <<":">>, <<"a">>, <<" ", "=">>})

\* numeric literals of the grammar: digits [. digits] [e|E [-] digits],
\* 0x hex digits, 0b binary digits, each with an optional LL or ULL
DigitRuns == SeqsUpTo({"0", "1"}, MaxDigits) \ {<<>>}
Fractions == {<<>>, <<".", "5">>}
Exponents == {<<>>, <<"e", "1">>, <<"E", "1", "0">>, <<"e", "-", "3">>}
Suffixes == {<<>>, <<"L", "L">>, <<"U", "L", "L">>}
DecimalLiterals ==
    Concat(Concat({d \in DigitRuns : Len(d) = 1 \/ d[1] # "0"}, Fractions), Exponents)
PrefixedLiterals ==
    Concat({<<"0", "x">>, <<"0", "X">>}, {<<"F">>, <<"f", "F">>, <<"1", "0">>})
    \cup Concat({<<"0", "b">>, <<"0", "B">>}, {<<"1">>, <<"1", "0", "1">>})
NumberLiterals == Concat(DecimalLiterals \cup PrefixedLiterals, Suffixes)
NumberTails == {<<>>, <<"+", "1">>, <<" ">>, <<";">>}
NumberInputs == Concat(NumberLiterals, NumberTails)
MalformedNumbers ==
    {<<"0", "x">>, <<"0", "x", "g">>, <<"0", "b", "2", " ">>, <<"1", "e">>,
     <<"1", "e", "x", " ">>, <<"1", "e", "-", "x">>, <<"1", "U", "L", "x">>,
     <<"1", ".", "5", "U", "L", " ", " ">>, <<"0", "x", "F", ".", "F", " ">>}

\* strings: an opening delimiter, a content, and a closing delimiter or none
Delimiters == {"\"", "'", BACKTICK}
StringPrefixes == {<<>>, <<"a", " ">>}
ContentChars == {"a", "]", "=", "\\", BACKTICK}
Contents == SeqsUpTo(ContentChars, MaxContent)
StringInputs ==
    UNION {{pre \o <<q>> \o content \o close :
                pre \in StringPrefixes, content \in Contents, close \in {<<>>, <<q>>}} :
           q \in Delimiters}
RawExamples ==
    {<<BACKTICK, "a", "]", "]", "b", BACKTICK>>, <<BACKTICK, "p", "l", "a", "i", "n", BACKTICK>>,
     <<BACKTICK, "a", "]", "]", "b", "]", "=", BACKTICK>>, <<BACKTICK, "]", "=", "]", "]", BACKTICK>>,
     <<"\"", "a", "b", "c">>, <<"\"", "a", "b", "\\">>, <<"'", "a", "\n", "\t", "b", "'">>,
     <<"a", NUL, "b">>, <<"?", ":", "$", " ">>, <<"?", ":", "a">>, <<"a", "?", ":", " ", "b">>,
     <<"?", "?", "a">>, <<".", ".", "a">>}

\* keywords and plain identifiers, alone and after other tokens
KeywordPrefixes ==
    {<<>>, <<".">>, <<"?", ".">>, <<":", ":">>, <<"?", ":", ":">>, <<"+">>,
     <<".", " ">>, <<".", "'", "s", "'">>, <<".", "1", " ">>}
KeywordInputs == Concat(KeywordPrefixes, DOMAIN KEYWORDS \cup {<<"x">>, <<"i", "f", "_">>})

\* runs of a character that is in no table
ErrorRuns == {[k \in 1..n |-> "$"] : n \in (MaxErrors - 2)..MaxErrors}

\* every short text over a mixed alphabet
GenericChars == {"a", "1", ".", "?", " ", "\"", EACUTE}
GenericInputs == SeqsUpTo(GenericChars, MaxLen)

Inputs ==
    OperatorInputs \cup NumberInputs \cup MalformedNumbers \cup StringInputs
    \cup RawExamples \cup KeywordInputs \cup ErrorRuns \cup GenericInputs

(***************************************************************************)
(* The parser (src/parser.rs).  A Token is a record of its kind and its    *)
(* lexeme; an Expression is the sequence of its ComplexTokens.  buildCall  *)
(* and buildExpression call each other: every invocation in progress is a  *)
(* record of its local variables on the stack, and an action is one turn   *)
(* of a loop of the invocation on top.                                     *)
(***************************************************************************)
ArithmeticOperators ==
    {"PLUS", "MINUS", "STAR", "SLASH", "PERCENTUAL", "CARET", "TWODOTS"}
Literals == {"NUMBER", "STRING", "TRUE", "FALSE"}

\* Token::isOp (crate::scanner of the parser's crate, outside the files
\* modelled here): true of the operators an expression is built with
isOp(t) == t.kind \in ArithmeticOperators

VALUE(value, kind) == [type |-> "VALUE", value |-> value, kind |-> kind]
CHAR(kind) == [type |-> "CHAR", kind |-> kind]
CALL(name, args) == [type |-> "CALL", name |-> name, args |-> args]

ParserInfo_new(tokens) == [current |-> 0, size |-> Len(tokens), tokens |-> tokens]

ParserInfo_at(q, pos) == q.tokens[Min(pos, q.size - 1) + 1]
ParserInfo_ended(q) == q.current >= q.size

\* a buildCall invocation: its locals, the index `begin` its cursor started
\* from, and whether it is in its inner loop ("scan") or after it ("arg")
CallFrame(name, current) ==
    [fn |-> "buildCall", name |-> name, args |-> <<>>, start |-> current + 2,
     pscope |-> 0, ended |-> FALSE, begin |-> current, phase |-> "scan"]

\* a buildExpression invocation
ExpressionFrame(start, end) ==
    [fn |-> "buildExpression", start |-> start, end |-> end, tokens |-> <<>>]

Top == stack[Len(stack)]
Pop == SubSeq(stack, 1, Len(stack) - 1)
SetTop(frame) == [stack EXCEPT ![Len(stack)] = frame]

InCall == ppc = "run" /\ stack # <<>> /\ Top.fn = "buildCall"
InExpression == ppc = "run" /\ stack # <<>> /\ Top.fn = "buildExpression"
Peek == ParserInfo_at(p, p.current)

Fail(message) ==
    /\ ppc' = "err"
    /\ perror' = message
    /\ ret' = "none"
    /\ UNCHANGED <<p, stack>>

ParserPanic ==
    /\ ppc' = "panicked"
    /\ ret' = "none"
    /\ UNCHANGED <<p, stack, perror>>

MoveTo(current) == p' = [p EXCEPT !.current = current]

\* ParseTokens, lines 233-250: buildCall on the first token
ParseTokens ==
    /\ ppc = "idle"
    /\ stack' = <<CallFrame(<<VALUE(ParserInfo_at(p, p.current).lexeme, "IDENTIFIER")>>,
                            p.current)>>
    /\ ppc' = "run"
    /\ UNCHANGED <<p, ret, perror, svars>>

\* buildCall, line 114: pscope += 1
CallOpen ==
    /\ InCall /\ Top.phase = "scan" /\ Peek.kind = "ROUND_BRACKET_OPEN"
    /\ IF Top.pscope = 255 /\ overflow_checks
       THEN ParserPanic
       ELSE /\ MoveTo(p.current + 1)
            /\ stack' = SetTop([Top EXCEPT !.pscope = (@ + 1) % 256])
            /\ UNCHANGED <<ppc, ret, perror>>
    /\ UNCHANGED svars

\* buildCall, lines 115-123: pscope -= 1, and the end of the list at 0
CallClosed ==
    /\ InCall /\ Top.phase = "scan" /\ Peek.kind = "ROUND_BRACKET_CLOSED"
    /\ IF Top.pscope = 0 /\ overflow_checks
       THEN ParserPanic
       ELSE /\ IF (Top.pscope + 255) % 256 = 0
               THEN /\ UNCHANGED p
                    /\ stack' = SetTop([Top EXCEPT !.pscope = 0, !.ended = TRUE,
                                                   !.phase = "arg"])
               ELSE /\ MoveTo(p.current + 1)
                    /\ stack' = SetTop([Top EXCEPT !.pscope = (@ + 255) % 256])
            /\ UNCHANGED <<ppc, ret, perror>>
    /\ UNCHANGED svars

\* a comma that ends the argument whatever the value of pscope
CallComma_at_any_depth ==
    /\ InCall /\ Top.phase = "scan" /\ Peek.kind = "COMMA"
    /\ stack' = SetTop([Top EXCEPT !.phase = "arg"])
    /\ UNCHANGED <<p, ppc, ret, perror, svars>>

\* buildCall, lines 124-128: a comma ends the argument unless pscope > 1
CallComma ==
    /\ InCall /\ Top.phase = "scan" /\ Peek.kind = "COMMA"
    /\ IF Top.pscope > 1
       THEN MoveTo(p.current + 1) /\ UNCHANGED stack
       ELSE UNCHANGED p /\ stack' = SetTop([Top EXCEPT !.phase = "arg"])
    /\ UNCHANGED <<ppc, ret, perror, svars>>

\* buildCall, line 129
CallEOF ==
    /\ InCall /\ Top.phase = "scan" /\ Peek.kind = "EOF"
    /\ Fail("Expected token ')' before '<eof>'.")
    /\ UNCHANGED svars

\* buildCall, line 130
CallOther ==
    /\ InCall /\ Top.phase = "scan"
    /\ Peek.kind \notin {"ROUND_BRACKET_OPEN", "ROUND_BRACKET_CLOSED", "COMMA", "EOF"}
    /\ MoveTo(p.current + 1)
    /\ UNCHANGED <<stack, ppc, ret, perror, svars>>

\* buildCall, lines 134-140: the argument between start and the cursor
CallArgument ==
    /\ InCall /\ Top.phase = "arg"
    /\ IF Top.start = p.current
       THEN IF Len(Top.args) > 0
            THEN Fail("Invalid empty function argument found.")
            ELSE /\ ret' = CALL(Top.name, Top.args)
                 /\ stack' = Pop
                 /\ ppc' = "returned"
                 /\ UNCHANGED <<p, perror>>
       ELSE /\ stack' = Append(stack, ExpressionFrame(Top.start, p.current))
            /\ MoveTo(Top.start)
            /\ UNCHANGED <<ppc, ret, perror>>
    /\ UNCHANGED svars

\* buildCall, lines 140-152: the argument has been built
CallResume ==
    /\ ppc = "returned" /\ stack # <<>> /\ Top.fn = "buildCall"
    /\ IF Top.ended
       THEN /\ ret' = CALL(Top.name, Append(Top.args, ret))
            /\ stack' = Pop
            /\ UNCHANGED <<p, ppc>>
       ELSE /\ MoveTo(p.current + 1)
            /\ stack' = SetTop([Top EXCEPT !.args = Append(@, ret),
                                           !.start = p.current + 1,
                                           !.phase = "scan"])
            /\ ppc' = "run"
            /\ ret' = "none"
    /\ UNCHANGED <<perror, svars>>

\* buildExpression, lines 165-187
ExpressionIdentifier ==
    /\ InExpression /\ p.current < Top.end /\ Peek.kind = "IDENTIFIER"
    /\ \E cur \in {p.current + 1} :
          IF cur < p.size /\ ParserInfo_at(p, cur).kind = "ROUND_BRACKET_OPEN"
          THEN /\ stack' = Append(stack,
                                  CallFrame(<<VALUE(Peek.lexeme, "IDENTIFIER")>>, cur - 1))
               /\ UNCHANGED <<p, ppc, ret, perror>>
          ELSE IF cur = Top.end \/ isOp(ParserInfo_at(p, cur))
          THEN /\ stack' = SetTop([Top EXCEPT
                                     !.tokens = Append(@, VALUE(Peek.lexeme, "IDENTIFIER"))])
               /\ MoveTo(cur)
               /\ UNCHANGED <<ppc, ret, perror>>
          ELSE Fail("Unexpected token")
    /\ UNCHANGED svars

\* buildExpression, lines 177: the call has been built
ExpressionResume ==
    /\ ppc = "returned" /\ stack # <<>> /\ Top.fn = "buildExpression"
    /\ stack' = SetTop([Top EXCEPT !.tokens = Append(@, ret)])
    /\ MoveTo(p.current + 1)
    /\ ppc' = "run"
    /\ ret' = "none"
    /\ UNCHANGED <<perror, svars>>

\* buildExpression, lines 195-205: the checks of an operator's neighbours
LeftOperands ==
    {"NUMBER", "IDENTIFIER", "STRING", "CURLY_BRACKET_CLOSED", "SQUARE_BRACKET_CLOSED", "NEW"}

\* the checks without the one of the booleans
OperatorError_without_booleans(start, end, cur, pt, nt) ==
    IF cur - 1 = start THEN "not expected at the start of expression"
    ELSE IF cur = end THEN "not expected at the end of expression"
    ELSE IF pt \notin LeftOperands THEN "has invalid left hand token"
    ELSE IF /\ nt # "NUMBER" /\ nt # "IDENTIFIER" /\ pt # "STRING"
            /\ nt # "CURLY_BRACKET_OPEN" /\ pt # "CURLY_BRACKET_CLOSED"
         THEN "has invalid right hand token"
    ELSE "none"

OperatorError(start, end, cur, pt, nt) ==
    IF cur - 1 = start THEN "not expected at the start of expression"
    ELSE IF cur = end THEN "not expected at the end of expression"
    ELSE IF pt = "TRUE" \/ nt = "TRUE" \/ pt = "FALSE" \/ nt = "FALSE"
         THEN "cannot operate with booleans"
    ELSE IF pt \notin LeftOperands THEN "has invalid left hand token"
    ELSE IF /\ nt # "NUMBER" /\ nt # "IDENTIFIER" /\ pt # "STRING"
            /\ nt # "CURLY_BRACKET_OPEN" /\ pt # "CURLY_BRACKET_CLOSED"
         THEN "has invalid right hand token"
    ELSE "none"

\* buildExpression, lines 188-210
ExpressionOperator ==
    /\ InExpression /\ p.current < Top.end /\ Peek.kind \in ArithmeticOperators
    /\ \E cur \in {p.current + 1} :
       \E e \in {OperatorError(Top.start, Top.end, cur,
                               IF cur >= 2 THEN ParserInfo_at(p, cur - 2).kind ELSE "none",
                               ParserInfo_at(p, cur).kind)} :
          IF e # "none"
          THEN Fail(e)
          ELSE /\ stack' = SetTop([Top EXCEPT !.tokens = Append(@, CHAR(Peek.kind))])
               /\ MoveTo(cur)
               /\ UNCHANGED <<ppc, ret, perror>>
    /\ UNCHANGED svars

\* buildExpression, lines 211-221
ExpressionLiteral ==
    /\ InExpression /\ p.current < Top.end /\ Peek.kind \in Literals
    /\ \E cur \in {p.current + 1} :
          IF cur - 1 = Top.start \/ cur = Top.end \/ isOp(ParserInfo_at(p, cur))
          THEN /\ stack' = SetTop([Top EXCEPT
                                     !.tokens = Append(@, VALUE(Peek.lexeme, Peek.kind))])
               /\ MoveTo(cur)
               /\ UNCHANGED <<ppc, ret, perror>>
          ELSE Fail("Unexpected token")
    /\ UNCHANGED svars

\* buildExpression, line 222
ExpressionUnexpected ==
    /\ InExpression /\ p.current < Top.end
    /\ Peek.kind \notin {"IDENTIFIER"} \cup ArithmeticOperators \cup Literals
    /\ Fail("Unexpected token")
    /\ UNCHANGED svars

\* buildExpression, lines 225-228: the loop is over
ExpressionEnd ==
    /\ InExpression /\ p.current >= Top.end
    /\ IF Len(Top.tokens) = 0
       THEN Fail("Unexpected token")
       ELSE /\ ret' = Top.tokens
            /\ stack' = Pop
            /\ ppc' = "returned"
            /\ UNCHANGED <<p, perror>>
    /\ UNCHANGED svars

\* ParseTokens, lines 251-252: the call is the result
ParseTokensDone ==
    /\ ppc = "returned" /\ stack = <<>>
    /\ ppc' = "ok"
    /\ UNCHANGED <<p, stack, ret, perror, svars>>

(***************************************************************************)
(* The token vectors ParseTokens is run on.                                *)
(***************************************************************************)
MaxBody == 4
MaxNesting == 257

Tok(kind, lexeme) == [kind |-> kind, lexeme |-> lexeme]
Ident(name) == Tok("IDENTIFIER", name)
Open == Tok("ROUND_BRACKET_OPEN", "(")
Closed == Tok("ROUND_BRACKET_CLOSED", ")")
Comma == Tok("COMMA", ",")
Plus == Tok("PLUS", "+")
TwoDots == Tok("TWODOTS", "..")
Number == Tok("NUMBER", "1")
String == Tok("STRING", "s")
True == Tok("TRUE", "true")
Eof == Tok("EOF", "")

BodyTokens == {Ident("a"), Number, True, Plus, Open, Closed, Comma}
Bodies == SeqsUpTo(BodyTokens, MaxBody)
CallInputs == {<<Ident("f"), Open>> \o body \o <<Eof>> : body \in Bodies}

\* f(a,(b,c),d) and f(a,g(b,c),d)
Parenthesized ==
    <<Ident("f"), Open, Ident("a"), Comma, Open, Ident("b"), Comma, Ident("c"), Closed,
      Comma, Ident("d"), Closed, Eof>>
NestedCall ==
    <<Ident("f"), Open, Ident("a"), Comma, Ident("g"), Open, Ident("b"), Comma, Ident("c"),
      Closed, Comma, Ident("d"), Closed, Eof>>

\* f(g(b) + 1)
CallThenOperator ==
    <<Ident("f"), Open, Ident("g"), Open, Ident("b"), Closed, Plus, Number, Closed, Eof>>

ParserExamples ==
    {Parenthesized, NestedCall,
     <<Ident("f"), Open, Ident("a"), Comma, Comma, Ident("b"), Closed, Eof>>,
     <<Ident("f"), Open, Comma, Ident("a"), Comma, Closed, Eof>>,
     <<Ident("f"), Open, Ident("x"), TwoDots, String, Closed, Eof>>,
     <<Ident("f"), Open, Number, TwoDots, String, Closed, Eof>>,
     <<Ident("f"), Open, String, TwoDots, Tok("FALSE", "false"), Closed, Eof>>,
     CallThenOperator,
     <<Ident("f"), Open, Number, Tok("STAR", "*"), Tok("NIL", "nil"), Closed, Eof>>,
     <<Ident("f"), Open, String, TwoDots, Tok("NIL", "nil"), Closed, Eof>>,
     <<Ident("f"), Open, String, TwoDots, String, Closed, Eof>>,
     <<Ident("f"), Open, String, Number, Closed, Eof>>,
     <<Ident("f"), Open, Ident("a"), Plus, Number, Ident("b"), Closed, Eof>>,
     <<Plus, Eof>>, <<Comma, Eof>>, <<Closed, Eof>>, <<Eof>>}

\* f( ... ( a , b with n parentheses after the call's own
NestingRuns ==
    {<<Ident("f"), Open>> \o [k \in 1..n |-> Open] \o <<Ident("a"), Comma, Ident("b"), Eof>> :
        n \in (MaxNesting - 2)..MaxNesting}

TokenInputs == CallInputs \cup ParserExamples \cup NestingRuns

ScannerInit ==
    /\ code \in Inputs
    /\ reader_ok \in BOOLEAN
    /\ overflow_checks \in BOOLEAN
    /\ i = ScannerInfo_new(code)
    /\ pc = "scan"
    /\ result = "none"
    /\ scanned = <<>>

ParserUnused ==
    /\ p = ParserInfo_new(<<>>)
    /\ stack = <<>>
    /\ ret = "none"
    /\ ppc = "unused"
    /\ perror = "none"

Init == ScannerInit /\ ParserUnused

Next ==
    \/ ScanSymbol
    \/ SkipWhitespace
    \/ ScanNumber
    \/ ScanIdentifier
    \/ UnexpectedCharacter
    \/ LoopHeadPanic
    \/ Finish

Spec == Init /\ [][Next]_vars

ScannerUnused ==
    /\ code = <<>>
    /\ reader_ok = TRUE
    /\ i = ScannerInfo_new(<<>>)
    /\ pc = "unused"
    /\ result = "none"
    /\ scanned = <<>>

ParserInit ==
    /\ ScannerUnused
    /\ overflow_checks \in BOOLEAN
    /\ \E tokens \in TokenInputs : p = ParserInfo_new(tokens)
    /\ stack = <<>>
    /\ ret = "none"
    /\ ppc = "idle"
    /\ perror = "none"

ParserNext ==
    \/ ParseTokens
    \/ CallOpen
    \/ CallClosed
    \/ CallComma
    \/ CallEOF
    \/ CallOther
    \/ CallArgument
    \/ CallResume
    \/ ExpressionIdentifier
    \/ ExpressionResume
    \/ ExpressionOperator
    \/ ExpressionLiteral
    \/ ExpressionUnexpected
    \/ ExpressionEnd
    \/ ParseTokensDone

ParserSpec == ParserInit /\ [][ParserNext]_vars

(***************************************************************************)
(* Properties of scan_code.                                                *)
(***************************************************************************)
Scanned == pc = "done"
Aborted == pc = "panicked"
Errors == i.sent
Range(f) == {f[k] : k \in DOMAIN f}

\* C1: scan_code on a text that is exactly one string of the symbol table
\* completes and yields exactly one token before the EOF token, of that
\* string's kind and with the text as its lexeme (the longest match).
C1_OneOperatorToken ==
    code \in DOMAIN OperatorTable =>
        /\ ~Aborted
        /\ Scanned =>
              /\ Len(i.tokens) = 2
              /\ i.tokens[1].kind = OperatorTable[code]
              /\ i.tokens[1].lexeme = code
              /\ i.tokens[2].kind = "EOF"

C1_Witness ==
    /\ Scanned
    /\ code = <<"?", "?", "=">>
    /\ Len(i.tokens) = 2
    /\ i.tokens[1].kind = "DEFINE_COALESCE"

\* C2, as stated: scan_code returns Ok exactly when no error was emitted
C2_OkIffNoError == Scanned => (result = "Ok" <=> Len(Errors) = 0)

\* the kind of the last token before the k-th that add_token has added
\* (every token but the STRING literals), EOF when there is none
RECURSIVE AddedBefore(_, _)
AddedBefore(tokens, k) ==
    IF k = 1 THEN "EOF"
    ELSE IF tokens[k - 1].kind # "STRING" THEN tokens[k - 1].kind
    ELSE AddedBefore(tokens, k - 1)

KeywordTokens == {k \in 1..Len(i.tokens) : i.tokens[k].lexeme \in DOMAIN KEYWORDS}

\* C3, as amended: a keyword of the target language (KeywordType::Lua) is
\* emitted with its keyword kind wherever it stands; a keyword of Clue alone
\* (KeywordType::Just) is emitted as IDENTIFIER when the last token before
\* it that is not a STRING literal is DOT, SAFE_DOT, DOUBLE_COLON or
\* SAFE_DOUBLE_COLON and with its keyword kind otherwise; reserved and error
\* keywords are always emitted as IDENTIFIER.
C3_KeywordKinds ==
    \A k \in KeywordTokens :
        \E keyword \in {KEYWORDS[i.tokens[k].lexeme]} :
            i.tokens[k].kind =
                CASE keyword.type = "Lua" -> keyword.kind
                  [] keyword.type = "Just" ->
                       IF AddedBefore(i.tokens, k) \in MemberAccess
                       THEN "IDENTIFIER" ELSE keyword.kind
                  [] OTHER -> "IDENTIFIER"

C3_Witness ==
    /\ Scanned
    /\ code = <<".", "i", "f">>
    /\ Len(i.tokens) = 3
    /\ i.tokens[1].kind = "DOT"
    /\ i.tokens[2].kind = "IF"

\* C3, as stated: a keyword with a kind of its own is emitted as IDENTIFIER
\* when the token right before it is a member access, and with its kind
\* otherwise
C3_MemberAccessAlways ==
    \A k \in KeywordTokens :
        \E keyword \in {KEYWORDS[i.tokens[k].lexeme]} :
            keyword.type \in {"Lua", "Just"} =>
                i.tokens[k].kind =
                    IF k > 1 /\ i.tokens[k - 1].kind \in MemberAccess
                    THEN "IDENTIFIER" ELSE keyword.kind

\* C4, as stated: a text that begins with a well-formed numeric literal is
\* scanned to the end without error, and its first token is a NUMBER whose
\* lexeme is the literal
C4_NumberRoundTrip ==
    \A literal \in NumberLiterals, tail \in NumberTails :
        code = literal \o tail =>
            /\ ~Aborted
            /\ Scanned =>
                  /\ result = "Ok"
                  /\ Len(Errors) = 0
                  /\ i.tokens[1].kind = "NUMBER"
                  /\ i.tokens[1].lexeme = literal

\* the texts that end inside a string: a delimiter that no later character repeats
Unterminated(text) ==
    \E pre \in StringPrefixes, q \in Delimiters, content \in Contents :
        /\ text = pre \o <<q>> \o content
        /\ q \notin Range(content)

\* C5, as stated: a string that is not closed before the end of the text
\* raises exactly one "Unterminated string" error and adds no token: the
\* scan ends with the tokens before the delimiter and the EOF token
C5_UnterminatedString ==
    Unterminated(code) =>
        /\ ~Aborted
        /\ Scanned =>
              /\ Len(Errors) = 1
              /\ Errors[1].message = "Unterminated string"
              /\ \A k \in 1..Len(i.tokens) : i.tokens[k].kind # "STRING"
              /\ i.tokens[Len(i.tokens)].kind = "EOF"
              /\ Len(i.tokens) = IF code[1] = "a" THEN 2 ELSE 1

RawBrackets == <<BACKTICK, "a", "]", "]", "b", BACKTICK>>
RawPlain == <<BACKTICK, "p", "l", "a", "i", "n", BACKTICK>>

OneString(lexeme) ==
    /\ Len(i.tokens) = 2
    /\ i.tokens[1].kind = "STRING"
    /\ i.tokens[1].lexeme = lexeme
    /\ i.tokens[2].kind = "EOF"

\* C6, as amended: the raw string a]]b is emitted as one STRING token with
\* the lexeme [=[a]]b]=], one "=" being enough to keep "]]" from closing the
\* long bracket, and the raw string plain as one STRING token with the
\* lexeme [[plain]].
C6_RawStringLevels ==
    /\ code \in {RawBrackets, RawPlain} => ~Aborted
    /\ (Scanned /\ code = RawBrackets) =>
          OneString(<<"[", "=", "[", "a", "]", "]", "b", "]", "=", "]">>)
    /\ (Scanned /\ code = RawPlain) =>
          OneString(<<"[", "[", "p", "l", "a", "i", "n", "]", "]">>)

C6_Witness ==
    /\ Scanned
    /\ code = RawBrackets
    /\ i.tokens[1].lexeme = <<"[", "=", "[", "a", "]", "]", "b", "]", "=", "]">>

\* C6, as stated: the raw string a]]b is emitted as [==[a]]b]==]
C6_TwoLevels ==
    (Scanned /\ code = RawBrackets) =>
        OneString(<<"[", "=", "=", "[", "a", "]", "]", "b", "]", "=", "=", "]">>)

\* C7, as stated: the tokens end with the only EOF token, whose lexeme is
\* <end> and whose span is collapsed at the final position of the scan
C7_CollapsedEOF ==
    Scanned =>
        /\ Len(i.tokens) > 0
        /\ \A k \in 1..Len(i.tokens) : i.tokens[k].kind = "EOF" <=> k = Len(i.tokens)
        /\ \E eof \in {i.tokens[Len(i.tokens)]} :
              /\ eof.lexeme = EndLexeme
              /\ eof.position.start = eof.position.end
              /\ eof.position.end = i.current

(***************************************************************************)
(* Properties of ParseTokens.                                              *)
(***************************************************************************)
Parsed == ppc = "ok"
Rejected == ppc = "err"

\* the parentheses open after the first k tokens
Depth(tokens, k) ==
    Cardinality({j \in 1..k : tokens[j].kind = "ROUND_BRACKET_OPEN"})
    - Cardinality({j \in 1..k : tokens[j].kind = "ROUND_BRACKET_CLOSED"})

\* a call name ( ... ) whose closing parenthesis is the token at index close
IsCall(tokens, close) ==
    /\ Len(tokens) >= 3
    /\ tokens[1].kind = "IDENTIFIER"
    /\ tokens[2].kind = "ROUND_BRACKET_OPEN"
    /\ close \in 3..Len(tokens)
    /\ tokens[close].kind = "ROUND_BRACKET_CLOSED"
    /\ Depth(tokens, close) = 0
    /\ \A k \in 2..(close - 1) : Depth(tokens, k) >= 1 /\ tokens[k].kind # "EOF"

\* the separators of the call's arguments: its parentheses and its own commas
Separators(tokens, close) ==
    {2, close} \cup {k \in 3..(close - 1) : tokens[k].kind = "COMMA" /\ Depth(tokens, k) = 1}

\* an empty argument after an argument that is not empty
EmptyAfterArgument(tokens, close) ==
    \E k \in Separators(tokens, close) :
        /\ k + 1 \in Separators(tokens, close)
        /\ \E j \in 3..(k - 1) : j \notin Separators(tokens, close)

EmptyCall == <<Ident("f"), Open, Closed, Eof>>

\* C8, as stated: f() is a CALL without arguments, and a call with an empty
\* argument after an argument that is not empty is never accepted
C8_EmptyArguments ==
    /\ p.tokens = EmptyCall =>
          /\ ppc \notin {"err", "panicked"}
          /\ Parsed => ret = CALL(<<VALUE("f", "IDENTIFIER")>>, <<>>)
    /\ \A close \in 3..Len(p.tokens) :
          (IsCall(p.tokens, close) /\ EmptyAfterArgument(p.tokens, close)) => ~Parsed

\* the turn of buildCall's inner loop reads a comma
AtComma == InCall /\ Top.phase = "scan" /\ Peek.kind = "COMMA"

\* the parentheses open since the invocation on top of the stack began
OpenSince == Depth(p.tokens, p.current + 1) - Depth(p.tokens, Top.begin)

ValueOf(name) == <<VALUE(name, "IDENTIFIER")>>

AtOperator == InExpression /\ p.current < Top.end /\ Peek.kind \in ArithmeticOperators

Booleans == {"TRUE", "FALSE"}
IsFirst == p.current = Top.start
IsLast == p.current + 1 = Top.end
BesideBoolean ==
    \/ ParserInfo_at(p, p.current - 1).kind \in Booleans
    \/ ParserInfo_at(p, p.current + 1).kind \in Booleans

RejectedWith(message) ==
    /\ ppc' = "err"
    /\ perror' = message
    /\ ret' = "none"

\* C10: in buildExpression over [start, end) an operator + - * / % ^ .. that
\* is the first token of the slice is rejected with "not expected at the
\* start of expression", one that is the last token with "not expected at
\* the end of expression", and one beside TRUE or FALSE with "cannot operate
\* with booleans" (of two cases that apply the earlier one gives the
\* message); each time the result is the error and no expression.
C10_OperatorEdges ==
    [][AtOperator =>
          /\ IsFirst => RejectedWith("not expected at the start of expression")
          /\ (~IsFirst /\ IsLast) => RejectedWith("not expected at the end of expression")
          /\ (~IsFirst /\ ~IsLast /\ BesideBoolean) =>
                RejectedWith("cannot operate with booleans")]_vars

C10_Witness ==
    /\ Rejected
    /\ perror = "cannot operate with booleans"
    /\ stack # <<>>
    /\ Top.fn = "buildExpression"
    /\ ~IsFirst /\ ~IsLast /\ BesideBoolean

(***************************************************************************)
(* The diagnostic substrate on its own: errors and warnings sent, in any   *)
(* order, through one ErrorMessaging instance (a ScannerInfo) over a text. *)
(***************************************************************************)
MaxDiagnostics == 6

MessagingTexts == {<<"a", "b">>, <<"a", EACUTE, "b">>}

MessagingInit ==
    /\ code \in MessagingTexts
    /\ reader_ok \in BOOLEAN
    /\ overflow_checks \in BOOLEAN
    /\ i = ScannerInfo_new(code)
    /\ pc = "messaging"
    /\ result = "none"
    /\ scanned = <<>>
    /\ ParserUnused

Messaging ==
    /\ pc = "messaging"
    /\ ~i.panicked
    /\ Len(i.sent) < MaxDiagnostics

\* ErrorMessaging::error
EmitError ==
    /\ Messaging
    /\ \E a \in {0}, b \in 1..2 : i' = send(i, "Error", "error", a, b)
    /\ UNCHANGED <<code, reader_ok, overflow_checks, pc, result, scanned, pvars>>

\* ErrorMessaging::warning
EmitWarning ==
    /\ Messaging
    /\ \E a \in {0}, b \in 1..2 : i' = send(i, "Warning", "warning", a, b)
    /\ UNCHANGED <<code, reader_ok, overflow_checks, pc, result, scanned, pvars>>

MessagingNext == EmitError \/ EmitWarning

MessagingSpec == MessagingInit /\ [][MessagingNext]_vars

\* C11, as stated: the first diagnostic sent has no separator line before it
\* and every later one has; a warning leaves the tally of errors as it is
\* and an error adds one to it
C11_SeparatorAndTally ==
    /\ \A k \in 1..Len(i.sent) : i.sent[k].separator <=> k > 1
    /\ i.panicked \/
          i.errors = Cardinality({k \in 1..Len(i.sent) : i.sent[k].kind = "Error"})

(***************************************************************************)
(* Scanning again: the lexemes of the tokens of an accepted text, joined   *)
(* with the whitespace that separated them, are given to scan_code again.  *)
(***************************************************************************)
\* the tokens without the EOF token
BeforeEOF(tokens) == SelectSeq(tokens, LAMBDA t : t.kind # "EOF")

\* the whitespace of the text from index from up to index to
Gap(text, from, to) ==
    SelectSeq(SubSeq(text, Min(from, Len(text)) + 1, Min(to, Len(text))),
              LAMBDA c : c \in Whitespace)

\* the lexemes of the first k tokens, each after the whitespace before it
RECURSIVE Joined(_, _, _)
Joined(text, tokens, k) ==
    IF k = 0 THEN <<>>
    ELSE Joined(text, tokens, k - 1)
         \o Gap(text, IF k = 1 THEN 0 ELSE tokens[k - 1].position.end,
                tokens[k].position.start)
         \o tokens[k].lexeme

KindsAndLexemes(tokens) ==
    [k \in 1..Len(tokens) |-> [kind |-> tokens[k].kind, lexeme |-> tokens[k].lexeme]]

\* scan_code is called again, on the joined lexemes of the tokens it returned
ScanAgain ==
    /\ pc = "done" /\ result = "Ok" /\ scanned = <<>>
    /\ \E tokens \in {BeforeEOF(i.tokens)} :
       \E text \in {Joined(code, tokens, Len(tokens))} :
          /\ scanned' = <<tokens>>
          /\ code' = text
          /\ i' = ScannerInfo_new(text)
    /\ pc' = "scan"
    /\ result' = "none"
    /\ UNCHANGED <<reader_ok, overflow_checks, pvars>>

RescanNext == Next \/ ScanAgain

RescanSpec == Init /\ [][RescanNext]_vars

\* the text being scanned is the joined lexemes of an earlier scan
Rescanning == Len(scanned) = 1

\* the tokens of that earlier scan
FirstScan == scanned[1]

\* a long bracket, which read_raw_string writes for a raw string
IsLongBracket(t) == t.kind = "STRING" /\ Len(t.lexeme) > 0 /\ t.lexeme[1] = "["

TokenType_safe_call_later ==
    <<"ROUND_BRACKET_OPEN", "ROUND_BRACKET_CLOSED", "SQUARE_BRACKET_OPEN",
      "SQUARE_BRACKET_CLOSED", "CURLY_BRACKET_OPEN", "CURLY_BRACKET_CLOSED",
      "COMMA", "SAFE_CALL", "SAFE_SQUARE_BRACKET", "SEMICOLON", "QUESTION_MARK",
      "NOT", "AND", "OR", "PLUS", "MINUS", "STAR", "SLASH", "FLOOR_DIVISION",
      "PERCENTUAL", "CARET", "HASHTAG", "COALESCE", "DOT", "DOUBLE_COLON", "TWODOTS",
      "COLON", "THREEDOTS", "ARROW", "SAFE_DOT", "SAFE_DOUBLE_COLON",
      "BIT_AND", "BIT_OR", "BIT_XOR", "BIT_NOT", "LEFT_SHIFT", "RIGHT_SHIFT",
      "DEFINE", "DEFINE_AND", "DEFINE_OR", "INCREASE", "DECREASE", "MULTIPLY", "DIVIDE",
      "DEFINE_COALESCE", "EXPONENTIATE", "CONCATENATE", "MODULATE",
      "BIGGER", "BIGGER_EQUAL", "SMALLER", "SMALLER_EQUAL", "EQUAL", "NOT_EQUAL",
      "IDENTIFIER", "NUMBER", "STRING",
      "IF", "ELSEIF", "ELSE", "FOR", "OF", "IN", "WITH", "WHILE", "META", "GLOBAL", "UNTIL",
      "LOCAL", "FN", "METHOD", "RETURN", "TRUE", "FALSE", "NIL", "LOOP", "STATIC", "ENUM",
      "CONTINUE", "BREAK", "TRY", "CATCH", "MATCH", "DEFAULT", "STRUCT", "EXTERN",
      "CONSTRUCTOR",
      "EOF">>

\* the kinds in the order of their declaration
TokenType ==
    <<"ROUND_BRACKET_OPEN", "ROUND_BRACKET_CLOSED", "SQUARE_BRACKET_OPEN",
      "SQUARE_BRACKET_CLOSED", "CURLY_BRACKET_OPEN", "CURLY_BRACKET_CLOSED",
      "SAFE_CALL", "COMMA", "SAFE_SQUARE_BRACKET", "SEMICOLON", "QUESTION_MARK",
      "NOT", "AND", "OR", "PLUS", "MINUS", "STAR", "SLASH", "FLOOR_DIVISION",
      "PERCENTUAL", "CARET", "HASHTAG", "COALESCE", "DOT", "DOUBLE_COLON", "TWODOTS",
      "COLON", "THREEDOTS", "ARROW", "SAFE_DOT", "SAFE_DOUBLE_COLON",
      "BIT_AND", "BIT_OR", "BIT_XOR", "BIT_NOT", "LEFT_SHIFT", "RIGHT_SHIFT",
      "DEFINE", "DEFINE_AND", "DEFINE_OR", "INCREASE", "DECREASE", "MULTIPLY", "DIVIDE",
      "DEFINE_COALESCE", "EXPONENTIATE", "CONCATENATE", "MODULATE",
      "BIGGER", "BIGGER_EQUAL", "SMALLER", "SMALLER_EQUAL", "EQUAL", "NOT_EQUAL",
      "IDENTIFIER", "NUMBER", "STRING",
      "IF", "ELSEIF", "ELSE", "FOR", "OF", "IN", "WITH", "WHILE", "META", "GLOBAL", "UNTIL",
      "LOCAL", "FN", "METHOD", "RETURN", "TRUE", "FALSE", "NIL", "LOOP", "STATIC", "ENUM",
      "CONTINUE", "BREAK", "TRY", "CATCH", "MATCH", "DEFAULT", "STRUCT", "EXTERN",
      "CONSTRUCTOR",
      "EOF">>

\* kind as u8: the first kind is 0
Ordinal(kind) == (CHOOSE k \in 1..Len(TokenType) : TokenType[k] = kind) - 1

\* the pairs check_safe_tokens names, the normal kind first
SafeTokens ==
    {<<"ROUND_BRACKET_OPEN", "SAFE_CALL">>, <<"SQUARE_BRACKET_OPEN", "SAFE_SQUARE_BRACKET">>,
     <<"DOT", "SAFE_DOT">>, <<"DOUBLE_COLON", "SAFE_DOUBLE_COLON">>}

\* C13: each of the four safe kinds has the ordinal of its normal kind plus
\* 6, every kind a scan emits is a kind of the enumeration, and a safe token
\* among the scanner's tokens has the ordinal of its normal kind plus 6.
C13_SafeOrdinals ==
    /\ \A pair \in SafeTokens : Ordinal(pair[2]) = Ordinal(pair[1]) + 6
    /\ \A k \in 1..Len(i.tokens) :
          /\ \E j \in 1..Len(TokenType) : TokenType[j] = i.tokens[k].kind
          /\ \A pair \in SafeTokens :
                i.tokens[k].kind = pair[2] => Ordinal(i.tokens[k].kind) - 6 = Ordinal(pair[1])

\* the scan of ?. followed by . is over: SAFE_DOT has ordinal 29, DOT 23
C13_Witness ==
    /\ Scanned
    /\ Len(i.tokens) = 3
    /\ i.tokens[1].kind = "SAFE_DOT" /\ Ordinal(i.tokens[1].kind) = 29
    /\ i.tokens[2].kind = "DOT" /\ Ordinal(i.tokens[2].kind) = 23

(***************************************************************************)
(* The symbol matcher: what the tokens of an accepted text cover.          *)
(***************************************************************************)
\* the character at index k (from 1) of the text lies in the span of a token
Covered(k) ==
    \E t \in 1..Len(i.tokens) :
        i.tokens[t].position.start < k /\ k <= i.tokens[t].position.end

\* the text starts with ? and one : that no second : follows
QuestionColon ==
    /\ Len(code) >= 2 /\ code[1] = "?" /\ code[2] = ":"
    /\ Len(code) >= 3 => code[3] # ":"

\* C14: an accepted text that starts with ? and a single : has QUESTION_MARK
\* and COLON as its first two tokens, and every character of an accepted
\* text that is a key of the symbol table lies in the span of a token.
C14_PrefixDefault ==
    (Scanned /\ result = "Ok") =>
        /\ QuestionColon =>
              /\ Len(i.tokens) >= 2
              /\ i.tokens[1].kind = "QUESTION_MARK"
              /\ i.tokens[2].kind = "COLON"
        /\ \A k \in 1..Len(code) : code[k] \in DOMAIN SYMBOLS => Covered(k)

\* C15: at every head of scan_code's loop the buffer holds two characters at
\* or after the current index, and no read of the buffer is outside it: with
\* no text to slice for a diagnostic and a tally that wraps, a read outside
\* the buffer is the only panic of a scan.
C15_Lookahead ==
    /\ pc = "scan" => Len(i.read) >= i.current + 2
    /\ (~reader_ok /\ ~overflow_checks) => ~Aborted

\* C19: every diagnostic the scanner has sent carries a span inside the
\* scanned text, 0 <= start <= end <= the number of characters of the text.
C19_SpanInsideText ==
    \A k \in 1..Len(Errors) :
        /\ 0 <= Errors[k].start
        /\ Errors[k].start <= Errors[k].end
        /\ Errors[k].end <= Len(code)

\* the number of "=" after the first "[" of a long bracket
LevelOf(lexeme) ==
    Cardinality({n \in 1..Len(lexeme) : \A k \in 2..(n + 1) : k <= Len(lexeme) /\ lexeme[k] = "="})

\* the closing delimiter of the long bracket occurs in it at its end only
ClosedAtEndOnly(lexeme) ==
    \E closing \in {<<"]">> \o Equals(LevelOf(lexeme)) \o <<"]">>} :
        \A k \in 1..Len(lexeme) :
            MatchAt(lexeme, closing, k) <=> k = Len(lexeme) - Len(closing) + 1

\* C20: the long bracket read_raw_string emits for a terminated raw string
\* holds its closing delimiter, "]" n "=" "]", at its very end and nowhere
\* before, for every content over "]" and "=" among other characters.
C20_ClosingDelimiterLast ==
    \A k \in 1..Len(i.tokens) :
        IsLongBracket(i.tokens[k]) => ClosedAtEndOnly(i.tokens[k].lexeme)

(***************************************************************************)
(* buildExpression: literals, the neighbours of an operator, and calls.    *)
(***************************************************************************)
AtLiteral == InExpression /\ p.current < Top.end /\ Peek.kind \in Literals

FollowedByOperator == isOp(ParserInfo_at(p, p.current + 1))

\* the token the cursor is at becomes the next ComplexToken of the expression
Accepted(complex) ==
    /\ ppc' = "run"
    /\ stack' = SetTop([Top EXCEPT !.tokens = Append(@, complex)])
    /\ p' = [p EXCEPT !.current = @ + 1]

Values == {"VALUE", "CALL"}

\* no expression of an invocation of buildExpression holds two values in a row
NoAdjacentValues ==
    \A d \in 1..Len(stack) :
        stack[d].fn = "buildExpression" =>
            \A k \in 1..(Len(stack[d].tokens) - 1) :
                ~(stack[d].tokens[k].type \in Values /\ stack[d].tokens[k + 1].type \in Values)

\* C16: in buildExpression a NUMBER, STRING, TRUE or FALSE is accepted as a
\* value when it is the last token of the slice or an operator follows it,
\* and is rejected with "Unexpected token" in every other case; no
\* expression being built ever holds two adjacent values.
C16_LiteralRule ==
    /\ [][AtLiteral =>
             IF IsLast \/ FollowedByOperator
             THEN Accepted(VALUE(Peek.lexeme, Peek.kind))
             ELSE RejectedWith("Unexpected token")]_vars
    /\ []NoAdjacentValues

Operands == {"NUMBER", "IDENTIFIER", "STRING"}
LeftNeighbour == ParserInfo_at(p, p.current - 1).kind
RightNeighbour == ParserInfo_at(p, p.current + 1).kind

\* an operator inside the slice, not beside a boolean, after an operand
AfterOperand ==
    /\ AtOperator /\ ~IsFirst /\ ~IsLast /\ ~BesideBoolean
    /\ LeftNeighbour \in Operands

\* C17: for an operator after a number, an identifier or a string, the right
\* neighbour alone decides: a number, an identifier or a string is accepted
\* and the operator becomes a CHAR of the expression, and any other kind is
\* rejected with "has invalid right hand token", also after a string.
C17_RightNeighbour ==
    [][AfterOperand =>
          IF RightNeighbour \in Operands
          THEN Accepted(CHAR(Peek.kind))
          ELSE RejectedWith("has invalid right hand token")]_vars

\* the last value of the expression being built is a call
AfterCall ==
    /\ AtOperator
    /\ Len(Top.tokens) > 0
    /\ Top.tokens[Len(Top.tokens)].type = "CALL"

\* C18: an operator that follows a call inside the slice and has a number or
\* an identifier to its right is accepted with the call as its left operand,
\* and f(g(b) + 1) parses to the call f whose one argument is the three
\* complex tokens CALL g(b), PLUS, VALUE 1.
C18_CallAsLeftOperand ==
    /\ [][(AfterCall /\ ~IsLast /\ RightNeighbour \in {"NUMBER", "IDENTIFIER"}) =>
             Accepted(CHAR(Peek.kind))]_vars
    /\ [](p.tokens = CallThenOperator =>
             /\ ppc \notin {"err", "panicked"}
             /\ Parsed =>
                   ret = CALL(ValueOf("f"),
                              <<<<CALL(ValueOf("g"), <<ValueOf("b")>>), CHAR("PLUS"),
                                  VALUE("1", "NUMBER")>>>>))

(***************************************************************************)
(* buildCall: what a returned call accounts for.                           *)
(***************************************************************************)
\* the tokens a ComplexToken, an expression and an argument list stand for:
\* one for a VALUE or a CHAR; for a CALL its name, its two parentheses, its
\* arguments and the commas between them
RECURSIVE TokensOf(_), TokensOfExpression(_, _), TokensOfArguments(_, _)
TokensOf(complex) ==
    IF complex.type = "CALL"
    THEN 3 + TokensOfArguments(complex.args, Len(complex.args))
         + Max(0, Len(complex.args) - 1)
    ELSE 1
TokensOfExpression(expr, k) ==
    IF k = 0 THEN 0 ELSE TokensOfExpression(expr, k - 1) + TokensOf(expr[k])
TokensOfArguments(args, k) ==
    IF k = 0 THEN 0
    ELSE TokensOfArguments(args, k - 1) + TokensOfExpression(args[k], Len(args[k]))

\* buildCall has just returned Ok to buildExpression or to ParseTokens
CallReturned ==
    /\ ppc = "returned"
    /\ stack = <<>> \/ Top.fn = "buildExpression"

\* C21: when buildCall returns Ok the cursor is at a closing parenthesis; when
\* the tokens are name ( ... ) it is the one matching the call's opening
\* parenthesis, and the returned arguments and the commas between them stand
\* for every token between the two parentheses, so that none is skipped.
C21_NothingSkipped ==
    /\ CallReturned => Peek.kind = "ROUND_BRACKET_CLOSED"
    /\ \A close \in 3..Len(p.tokens) :
          (IsCall(p.tokens, close) /\ (Parsed \/ (CallReturned /\ stack = <<>>))) =>
              /\ p.current + 1 = close
              /\ TokensOf(ret) = close
====
